---- MODULE Spec2Model ----
(***************************************************************************)
(* Model of src/lib/StagehandPage.ts: the settlement detector              *)
(* (_waitForSettledDom) and the CDP session registry (getCDPClient).       *)
(*                                                                         *)
(* Time is counted in milliseconds and advances in steps of Unit (half of  *)
(* the quiet window), so that events can fall on or between the 500 ms     *)
(* timer expiries.  Timers are ideal: a timer that is due runs its         *)
(* callback before time advances, while protocol events handled at the     *)
(* same instant may run before or after it.                                *)
(***************************************************************************)
EXTENDS Integers, FiniteSets, Sequences, TLC

\* ------------------------------------------------------------ constants
QuietMs == 500
SweepMs == 500
StallMs == 2000

Unit == QuietMs \div 2

\* largest guard timeout tried, in Units
MaxTimeoutUnits == 14

Timeouts == {Unit, 4 * Unit, MaxTimeoutUnits * Unit}
MaxNow == MaxTimeoutUnits * Unit + QuietMs

ReqIds == {"r1", "r2"}
Frames == {"f1"}
NoFrame == "none"
ResourceTypes == {"Document", "Script", "WebSocket", "EventSource"}

\* a timer that is not running (never set, fired, or cleared)
Off == -1
\* a duration of the history measured from something that has not happened
Never == Off

\* how far the history counts durations
ReqCap == StallMs + SweepMs + QuietMs + Unit
FinishCap == QuietMs + Unit

SetupSteps == <<"getCDPClient", "title", "waitForLoadState",
                "Network.enable", "Page.enable", "Target.setAutoAttach">>

EventNames == {"Network.requestWillBeSent", "Network.loadingFinished",
               "Network.loadingFailed", "Network.requestServedFromCache",
               "Network.responseReceived", "Page.frameStoppedLoading"}

\* getCDPClient: the keys of the cdpClients WeakMap, this.page among them
Targets == {"page", "frame"}
MainPage == "page"
Callers == {"c1", "c2"}
\* sessions are numbered from 1 in the order the engine creates them
NoSession == 0
NoError == "none"
OtherErrors == {"Target closed"}
Pages == {"p1", "p2", "p3"}
MaxInits == 2
Undefined == "undefined"
Fids == {"A", "B", "C"}
BackendIds == {0, 7, 120}
MaxNodes == 3
Nodes == 1..MaxNodes
Null == 0
ShadowModes == {"none", "open", "closed"}
AttrValues == {"x", "y"}
SelectorValue == "x"
Envs == {"LOCAL", "BROWSERBASE"}
NoTimeout == Off
MaxCaptchaUnits == 3
CaptchaTimeouts == {NoTimeout, 0, Unit, MaxCaptchaUnits * Unit}
MaxElapsed == (MaxCaptchaUnits + 2) * Unit
ConsoleTexts == {"browserbase-solving-started", "browserbase-solving-finished",
                 "log"}
DigitChars == <<"0", "1", "2", "3", "4", "5", "6", "7", "8", "9">>
MaxSessions == 3
\* nested getCDPClient activations of one call that are followed
MaxDepth == 3
\* newCDPSession requests per target that are followed
MaxRpcs == 3

VARIABLES
  \* getCDPClient
  separate,      \* the targets the engine creates a dedicated CDP session for
  cdpClients,    \* the WeakMap, NoSession where it has no entry
  calls,         \* per caller: the getCDPClient call it has made
  nextSession,   \* the session the engine creates next
  rpcs,          \* newCDPSession requests made so far, per target
  returned,      \* history: the sessions calls have returned, per target
  created,       \* history: the sessions the engine has created, per target
  \* ensureStagehandSelectorEngine
  stagehandSelectorRegistered, \* the module-level flag
  registerCalls, \* how many times selectors.register has been invoked
  registration,  \* history: what has become of that invocation
  initPc,        \* per StagehandPage instance: the position of its init()
  initRuns,      \* per instance: how many times init() has been called
  \* frame ordinals
  fidOrdinals,   \* the Map<string | undefined, number>
  ordOp,         \* the latest call: its name, arguments and result
  discovered,    \* history: the distinct frame ids looked up since the latest
                 \* reset, in order, each with the ordinal it got first
  retired,       \* history: `discovered` as it was at the latest reset
  \* the selector engine
  dom,           \* the tree under the root node a query is given
  queried,       \* which of query and queryAll have been applied to it
  all,           \* what queryAll returned: a sequence of elements
  first,         \* what query returned: an element or Null
  \* waitForCaptchaSolve
  env,           \* this.stagehand.env
  timeoutMs,     \* the argument: NoTimeout when it is not given
  captcha,       \* state of the promise waitForCaptchaSolve returns
  captchaError,  \* what it was rejected with
  started,       \* the closure's flag
  timeoutId,     \* the timer: Off, or ms left until its callback runs
  consoleOn,     \* the console listener is subscribed
  elapsed,       \* ms since the call
  startedAt,     \* history: `elapsed` at the first started message handled
  finishedAt,    \* history: `elapsed` at the first finished message handled
  \* _waitForSettledDom
  pc,            \* position of the async function: a setup step, "armed", "rejected"
  promise,       \* state of the promise the caller awaits
  timeout,       \* the guard delay (timeoutMs ?? domSettleTimeoutMs)
  now,           \* Date.now(), relative to the instant the timers were armed
  inflight,      \* Set<string>
  meta,          \* Map<string, {start}>
  docByFrame,    \* Map<frameId, requestId>
  quietTimer,    \* the handle variable: TRUE when non-null
  stalledRequestSweepTimer, \* the handle variable: TRUE when non-null
  timers,        \* the event loop's timers: Off, or ms left until the callback runs
  listeners,     \* the protocol events the client has a handler for
  resolveRuns,   \* how many times resolveDone has run
  \* history of the run, kept until the promise settles; durations are
  \* counted up to the cap given with each
  last,          \* what the latest step did
  nReq,          \* tracked request initiations handled (counted to 2)
  sinceReq,      \* ms since the latest tracked request initiation (to ReqCap)
  sinceFinish,   \* ms since finishReq last removed a request (to FinishCap)
  emptyFor,      \* ms for which inflight has been empty (to QuietMs)
  swept          \* the sweep has evicted a request

detVars == <<pc, promise, timeout, now, inflight, meta, docByFrame, quietTimer,
             stalledRequestSweepTimer, timers, listeners, resolveRuns>>
histVars == <<last, nReq, sinceReq, sinceFinish, emptyFor, swept>>
regVars == <<separate, cdpClients, calls, nextSession, rpcs, returned, created>>
selVars == <<stagehandSelectorRegistered, registerCalls, registration, initPc,
             initRuns>>
ordVars == <<fidOrdinals, ordOp, discovered, retired>>
qryVars == <<dom, queried, all, first>>
capVars == <<env, timeoutMs, captcha, captchaError, started, timeoutId,
             consoleOn, elapsed, startedAt, finishedAt>>
vars == <<detVars, histVars, regVars, selVars, ordVars, qryVars, capVars>>
\* what the steps of each component leave alone
outsideSettle == <<capVars, regVars, selVars, ordVars, qryVars>>
outsideCDP == <<capVars, detVars, histVars, selVars, ordVars, qryVars>>
outsideInit == <<capVars, detVars, histVars, regVars, ordVars, qryVars>>
outsideOrdinals == <<capVars, detVars, histVars, regVars, selVars, qryVars>>
outsideQuery == <<capVars, detVars, histVars, regVars, selVars, ordVars>>
outsideCaptcha == <<detVars, histVars, regVars, selVars, ordVars, qryVars>>

\* ------------------------------------------------- the closure's state
\* The variables the closures of _waitForSettledDom read and write, as one record.
D == [inflight |-> inflight, meta |-> meta, docByFrame |-> docByFrame,
      quietTimer |-> quietTimer,
      stalledRequestSweepTimer |-> stalledRequestSweepTimer,
      timers |-> timers, listeners |-> listeners, promise |-> promise,
      resolveRuns |-> resolveRuns, now |-> now]

Store(d) ==
  /\ inflight' = d.inflight
  /\ meta' = d.meta
  /\ docByFrame' = d.docByFrame
  /\ quietTimer' = d.quietTimer
  /\ stalledRequestSweepTimer' = d.stalledRequestSweepTimer
  /\ timers' = d.timers
  /\ listeners' = d.listeners
  /\ promise' = d.promise
  /\ resolveRuns' = d.resolveRuns

Remove(f, k) == [x \in DOMAIN f \ {k} |-> f[x]]
Put(f, k, v) == [x \in DOMAIN f \cup {k} |-> IF x = k THEN v ELSE f[x]]

\* resolveDone that forgets clearTimeout(guard)
resolveDone_keepGuard(d) ==
  [d EXCEPT !.listeners = {},
            !.timers = [k \in DOMAIN d.timers |->
                          IF k = "guard" THEN d.timers[k] ELSE Off],
            !.promise = IF d.promise = "pending" THEN "resolved" ELSE d.promise,
            !.resolveRuns = IF d.resolveRuns < 2 THEN d.resolveRuns + 1 ELSE 2]

\* resolveDone: unsubscribe the six handlers, cancel the three timers, resolve()
resolveDone(d) ==
  [d EXCEPT !.listeners = {},
            !.timers = [k \in DOMAIN d.timers |->
                          CASE k = "quiet" -> IF d.quietTimer THEN Off ELSE d.timers[k]
                            [] k = "sweep" -> IF d.stalledRequestSweepTimer
                                              THEN Off ELSE d.timers[k]
                            [] OTHER -> Off],
            !.promise = IF d.promise = "pending" THEN "resolved" ELSE d.promise,
            !.resolveRuns = IF d.resolveRuns < 2 THEN d.resolveRuns + 1 ELSE 2]

clearQuiet(d) ==
  IF d.quietTimer
  THEN [d EXCEPT !.timers["quiet"] = Off, !.quietTimer = FALSE]
  ELSE d

\* maybeQuiet that does not look at inflight
maybeQuiet_anySize(d) ==
  IF ~d.quietTimer
  THEN [d EXCEPT !.timers["quiet"] = QuietMs, !.quietTimer = TRUE]
  ELSE d

maybeQuiet(d) ==
  IF d.inflight = {} /\ ~d.quietTimer
  THEN [d EXCEPT !.timers["quiet"] = QuietMs, !.quietTimer = TRUE]
  ELSE d

\* finishReq that leaves re-arming the quiet timer to the next sweep tick
finishReq_noQuiet(d, id) ==
  IF id \notin d.inflight
  THEN d
  ELSE clearQuiet([d EXCEPT
                     !.inflight = @ \ {id},
                     !.meta = [x \in DOMAIN @ \ {id} |-> @[x]],
                     !.docByFrame = [f \in {g \in DOMAIN @ : @[g] # id} |-> @[f]]])

\* finishReq without the early return
finishReq_alwaysRequiets(d, id) ==
  LET d1 == [d EXCEPT
               !.inflight = @ \ {id},
               !.meta = [x \in DOMAIN @ \ {id} |-> @[x]],
               !.docByFrame = [f \in {g \in DOMAIN @ : @[g] # id} |-> @[f]]]
  IN maybeQuiet(clearQuiet(d1))

finishReq(d, id) ==
  IF id \notin d.inflight
  THEN d
  ELSE LET d1 == [d EXCEPT
                    !.inflight = @ \ {id},
                    !.meta = Remove(@, id),
                    !.docByFrame = [f \in {g \in DOMAIN @ : @[g] # id} |-> @[f]]]
       IN maybeQuiet(clearQuiet(d1))

\* onRequest that does not cancel the quiet timer
onRequest_noClear(d, p) ==
  IF p.type = "WebSocket" \/ p.type = "EventSource"
  THEN d
  ELSE [d EXCEPT
          !.inflight = @ \cup {p.requestId},
          !.meta = Put(@, p.requestId, [start |-> d.now]),
          !.docByFrame = IF p.type = "Document" /\ p.frameId # NoFrame
                         THEN Put(@, p.frameId, p.requestId)
                         ELSE @]

\* onRequest that exempts WebSocket only
onRequest_wsOnly(d, p) ==
  IF p.type = "WebSocket"
  THEN d
  ELSE clearQuiet([d EXCEPT
                     !.inflight = @ \cup {p.requestId},
                     !.meta = Put(@, p.requestId, [start |-> d.now]),
                     !.docByFrame = IF p.type = "Document" /\ p.frameId # NoFrame
                                    THEN Put(@, p.frameId, p.requestId)
                                    ELSE @])

\* p = [requestId, type, frameId]
onRequest(d, p) ==
  IF p.type = "WebSocket" \/ p.type = "EventSource"
  THEN d
  ELSE LET d1 == [d EXCEPT
                    !.inflight = @ \cup {p.requestId},
                    !.meta = Put(@, p.requestId, [start |-> d.now]),
                    !.docByFrame = IF p.type = "Document" /\ p.frameId # NoFrame
                                   THEN Put(@, p.frameId, p.requestId)
                                   ELSE @]
       IN clearQuiet(d1)

onFinish(d, id) == finishReq(d, id)
onCached(d, id) == finishReq(d, id)
\* p = [requestId, data]: data is response.url.startsWith("data:")
onDataUrl(d, p) == IF p.data THEN finishReq(d, p.requestId) ELSE d

onFrameStop(d, frameId) ==
  IF frameId \in DOMAIN d.docByFrame
  THEN finishReq(d, d.docByFrame[frameId])
  ELSE d

Stalled_atThreshold(d) ==
  {id \in DOMAIN d.meta : d.now - d.meta[id].start >= StallMs}

\* the requests the sweep evicts: now - m.start > 2_000
Stalled(d) == {id \in DOMAIN d.meta : d.now - d.meta[id].start > StallMs}

\* a sweep that evicts without the closing maybeQuiet()
sweep_noQuiet(d) ==
  [d EXCEPT !.inflight = @ \ Stalled(d),
            !.meta = [x \in DOMAIN @ \ Stalled(d) |-> @[x]]]

\* a sweep that evicts from inflight only
sweep_keepsMeta(d) ==
  maybeQuiet([d EXCEPT !.inflight = @ \ Stalled(d)])

\* a sweep that restarts the quiet timer
sweep_restartsQuiet(d) ==
  LET gone == Stalled(d)
      d1 == [d EXCEPT !.inflight = @ \ gone,
                      !.meta = [x \in DOMAIN @ \ gone |-> @[x]]]
  IN maybeQuiet(clearQuiet(d1))

\* the setInterval callback
sweep(d) ==
  LET gone == Stalled(d)
      d1 == [d EXCEPT !.inflight = @ \ gone,
                      !.meta = [x \in DOMAIN @ \ gone |-> @[x]]]
  IN maybeQuiet(d1)

\* a guard that gives way to requests still in flight
guardFired_whenIdle(d) == IF d.inflight = {} THEN resolveDone(d) ELSE d

\* the guard's setTimeout callback (the log line aside)
guardFired(d) == resolveDone(d)

\* an executor that sets no guard
arm_noGuard(d, t) ==
  maybeQuiet([d EXCEPT !.inflight = {}, !.meta = <<>>, !.docByFrame = <<>>,
                       !.quietTimer = FALSE, !.stalledRequestSweepTimer = TRUE,
                       !.listeners = EventNames,
                       !.timers = [@ EXCEPT !["sweep"] = SweepMs],
                       !.promise = "pending"])

\* an executor without the first maybeQuiet()
arm_noFirstQuiet(d, t) ==
  [d EXCEPT !.inflight = {}, !.meta = <<>>, !.docByFrame = <<>>,
            !.quietTimer = FALSE, !.stalledRequestSweepTimer = TRUE,
            !.listeners = EventNames,
            !.timers = [@ EXCEPT !["sweep"] = SweepMs, !["guard"] = t],
            !.promise = "pending"]

\* the executor of the returned Promise, run once the setup commands succeeded
arm(d, t) ==
  LET d1 == [d EXCEPT !.inflight = {}, !.meta = <<>>, !.docByFrame = <<>>,
                      !.quietTimer = FALSE, !.stalledRequestSweepTimer = TRUE,
                      !.listeners = EventNames,
                      !.timers = [@ EXCEPT !["sweep"] = SweepMs],
                      !.promise = "pending"]
      d2 == maybeQuiet(d1)
  IN [d2 EXCEPT !.timers["guard"] = t]

\* ----------------------------------------------------------- history
Hist(d, what) ==
  /\ last' = what
  /\ nReq' = IF what = "request" /\ nReq < 2 THEN nReq + 1 ELSE nReq
  /\ sinceReq' = IF what = "request" THEN 0 ELSE sinceReq
  /\ sinceFinish' = IF what \in {"finish", "frameStop"} /\ d.inflight # inflight
                    THEN 0 ELSE sinceFinish
  /\ emptyFor' = IF d.inflight # {} THEN Never
                 ELSE IF inflight # {} \/ emptyFor = Never THEN 0
                 ELSE emptyFor
  /\ swept' = (swept \/ (what = "sweep" /\ d.inflight # inflight))

\* ------------------------------------------------------------- Init
InitDetector ==
  /\ pc = "getCDPClient"
  /\ promise = "none"
  /\ now = 0
  /\ inflight = {}
  /\ meta = <<>>
  /\ docByFrame = <<>>
  /\ quietTimer = FALSE
  /\ stalledRequestSweepTimer = FALSE
  /\ timers = [k \in {"quiet", "sweep", "guard"} |-> Off]
  /\ listeners = {}
  /\ resolveRuns = 0
  /\ last = "init"
  /\ nReq = 0
  /\ sinceReq = Never
  /\ sinceFinish = Never
  /\ emptyFor = Never
  /\ swept = FALSE

IdleCall == [state |-> "idle", target |-> MainPage, stack |-> <<>>,
             ret |-> NoSession, result |-> NoSession,
             err |-> NoError, error |-> NoError, threw |-> NoError]

InitRegistry ==
  /\ cdpClients = [t \in Targets |-> NoSession]
  /\ calls = [c \in Callers |-> IdleCall]
  /\ nextSession = 1
  /\ rpcs = [t \in Targets |-> 0]
  /\ returned = [t \in Targets |-> {}]
  /\ created = [t \in Targets |-> {}]

\* no init() called, the selector engine not registered
InitSelectorEngine ==
  /\ stagehandSelectorRegistered = FALSE
  /\ registerCalls = 0
  /\ registration = "none"
  /\ initPc = [p \in Pages |-> "new"]
  /\ initRuns = [p \in Pages |-> 0]

NoOp == [op |-> "none", fid |-> Undefined, backendId |-> 0, ord |-> 0,
         token |-> <<>>]

\* new Map([[undefined, 0]]), nothing called
InitOrdinals ==
  /\ fidOrdinals = (Undefined :> 0)
  /\ ordOp = NoOp
  /\ discovered = <<>>
  /\ retired = <<>>

\* The trees a query can be given.  Node 1 is the root element (the
\* documentElement when the root passed is a Document); every other node has
\* a parent of smaller number, in document order, and is an element or a
\* text node.  A node is a child of its parent or, `shadowed`, a child of
\* the shadow root its parent hosts; `mode` says whether an element hosts a
\* shadow root and of which kind.  A closed root is one the backdoor
\* resolves.  `attr` is the value of the attribute the selector names.
Parents ==
  {p \in [Nodes -> 0..MaxNodes] :
     p[1] = 0 /\ \A n \in Nodes \ {1} : p[n] \in 1..(n - 1)}

IsTree(t) ==
  /\ t.parent \in Parents
  /\ ~t.shadowed[1] /\ ~t.text[1]
  /\ \A n \in Nodes \ {1} :
       /\ ~t.text[t.parent[n]]
       /\ t.shadowed[n] => t.mode[t.parent[n]] # "none"
  /\ \A n \in Nodes : t.text[n] => t.mode[n] = "none" /\ t.attr[n] = "y"

\* the root element with childless children that do not match
FlatTree ==
  [parent |-> [n \in Nodes |-> IF n = 1 THEN 0 ELSE 1],
   shadowed |-> [n \in Nodes |-> FALSE], text |-> [n \in Nodes |-> FALSE],
   mode |-> [n \in Nodes |-> "none"], attr |-> [n \in Nodes |-> "y"]]

\* no query made
NoQuery ==
  /\ queried = {}
  /\ all = <<>>
  /\ first = Null

IdleQuery ==
  /\ dom = FlatTree
  /\ NoQuery

\* waitForCaptchaSolve not called
NoCaptchaWait ==
  /\ captcha = "none"
  /\ captchaError = NoError
  /\ started = FALSE
  /\ timeoutId = Off
  /\ consoleOn = FALSE
  /\ elapsed = 0
  /\ startedAt = Never
  /\ finishedAt = Never

IdleCaptcha ==
  /\ env = "BROWSERBASE"
  /\ timeoutMs = NoTimeout
  /\ NoCaptchaWait

\* each component as it is while the steps of another one are explored
IdleDetector == InitDetector /\ timeout = MaxTimeoutUnits * Unit
IdleRegistry == InitRegistry /\ separate = Targets

InitSettle ==
  /\ InitDetector
  /\ timeout \in Timeouts
  /\ IdleRegistry
  /\ InitSelectorEngine
  /\ InitOrdinals
  /\ IdleQuery
  /\ IdleCaptcha

\* ------------------------------------------------------------ setup
StepIndex(s) == CHOOSE i \in 1..Len(SetupSteps) : SetupSteps[i] = s

\* One awaited call of the setup succeeds.  page.title().catch(() => false)
\* never rejects; waitForLoadState is awaited only when there is no title.
SetupOk ==
  /\ pc \in {SetupSteps[i] : i \in 1..Len(SetupSteps) - 1}
  /\ \E next \in {SetupSteps[i] : i \in 2..Len(SetupSteps)} :
       /\ \/ /\ pc = "title"
             /\ next \in {"waitForLoadState", "Network.enable"}
          \/ /\ pc # "title"
             /\ next = SetupSteps[StepIndex(pc) + 1]
       /\ pc' = next
  /\ last' = "setup"
  /\ UNCHANGED <<promise, timeout, now, inflight, meta, docByFrame, quietTimer,
                 stalledRequestSweepTimer, timers, listeners, resolveRuns>>
  /\ UNCHANGED <<nReq, sinceReq, sinceFinish, emptyFor, swept>>

\* An awaited call of the setup rejects: the async function rejects with it.
SetupFails ==
  /\ pc \in {SetupSteps[i] : i \in 1..Len(SetupSteps)} \ {"title"}
  /\ pc' = "rejected"
  /\ promise' = "rejected"
  /\ last' = "setupFailed"
  /\ UNCHANGED <<timeout, now, inflight, meta, docByFrame, quietTimer,
                 stalledRequestSweepTimer, timers, listeners, resolveRuns>>
  /\ UNCHANGED <<nReq, sinceReq, sinceFinish, emptyFor, swept>>

\* Target.setAutoAttach succeeded: the Promise executor runs.
Arm ==
  /\ pc = "Target.setAutoAttach"
  /\ pc' = "armed"
  /\ LET d == arm(D, timeout) IN Store(d) /\ Hist(d, "arm")
  /\ UNCHANGED <<timeout, now>>

\* --------------------------------------------------- protocol events
\* The client emits event `name`: its handler runs if one is subscribed
\* (client.on ... client.off), and nothing happens otherwise.
Handle(name, d, what) ==
  /\ pc = "armed"
  /\ IF name \in listeners
     THEN Store(d) /\ Hist(d, what)
     ELSE UNCHANGED <<inflight, meta, docByFrame, quietTimer,
                      stalledRequestSweepTimer, timers, listeners, promise,
                      resolveRuns, histVars>>
  /\ UNCHANGED <<pc, timeout, now>>

RequestWillBeSent ==
  \E id \in ReqIds, ty \in ResourceTypes, f \in Frames \cup {NoFrame} :
    Handle("Network.requestWillBeSent",
           onRequest(D, [requestId |-> id, type |-> ty, frameId |-> f]),
           IF ty \in {"WebSocket", "EventSource"} THEN "ignored" ELSE "request")

Done(id) == IF id \in inflight THEN "finish" ELSE "noFinish"

LoadingFinished ==
  \E id \in ReqIds : Handle("Network.loadingFinished", onFinish(D, id), Done(id))

LoadingFailed ==
  \E id \in ReqIds : Handle("Network.loadingFailed", onFinish(D, id), Done(id))

RequestServedFromCache ==
  \E id \in ReqIds :
    Handle("Network.requestServedFromCache", onCached(D, id), Done(id))

ResponseReceived ==
  \E id \in ReqIds, data \in BOOLEAN :
    Handle("Network.responseReceived",
           onDataUrl(D, [requestId |-> id, data |-> data]),
           IF data THEN Done(id) ELSE "response")

FrameStoppedLoading ==
  \E f \in Frames :
    Handle("Page.frameStoppedLoading", onFrameStop(D, f),
           IF f \in DOMAIN docByFrame THEN "frameStop" ELSE "noFrameStop")

\* ------------------------------------------------------------ timers
QuietFires ==
  /\ pc = "armed"
  /\ timers["quiet"] = 0
  /\ LET d == resolveDone([D EXCEPT !.timers["quiet"] = Off])
     IN Store(d) /\ Hist(d, "quiet")
  /\ UNCHANGED <<pc, timeout, now>>

SweepFires ==
  /\ pc = "armed"
  /\ timers["sweep"] = 0
  /\ LET d == sweep([D EXCEPT !.timers["sweep"] = SweepMs])
     IN Store(d) /\ Hist(d, "sweep")
  /\ UNCHANGED <<pc, timeout, now>>

GuardFires ==
  /\ pc = "armed"
  /\ timers["guard"] = 0
  /\ LET d == guardFired([D EXCEPT !.timers["guard"] = Off])
     IN Store(d) /\ Hist(d, "guard")
  /\ UNCHANGED <<pc, timeout, now>>

\* a duration of the history, Unit later
Later(t, cap) ==
  IF t = Never \/ promise # "pending" THEN t
  ELSE IF t + Unit > cap THEN cap ELSE t + Unit

\* Time passes, unless a timer is due.
Tick ==
  /\ pc = "armed"
  /\ now < MaxNow
  /\ \A k \in DOMAIN timers : timers[k] # 0
  /\ now' = now + Unit
  /\ timers' = [k \in DOMAIN timers |->
                  IF timers[k] = Off THEN Off ELSE timers[k] - Unit]
  /\ last' = "tick"
  /\ UNCHANGED <<pc, promise, timeout, inflight, meta, docByFrame, quietTimer,
                 stalledRequestSweepTimer, listeners, resolveRuns>>
  /\ sinceReq' = Later(sinceReq, ReqCap)
  /\ sinceFinish' = Later(sinceFinish, FinishCap)
  /\ emptyFor' = Later(emptyFor, QuietMs)
  /\ UNCHANGED <<nReq, swept>>

NextSettle ==
  \/ SetupOk /\ UNCHANGED outsideSettle
  \/ SetupFails /\ UNCHANGED outsideSettle
  \/ Arm /\ UNCHANGED outsideSettle
  \/ RequestWillBeSent /\ UNCHANGED outsideSettle
  \/ LoadingFinished /\ UNCHANGED outsideSettle
  \/ LoadingFailed /\ UNCHANGED outsideSettle
  \/ RequestServedFromCache /\ UNCHANGED outsideSettle
  \/ ResponseReceived /\ UNCHANGED outsideSettle
  \/ FrameStoppedLoading /\ UNCHANGED outsideSettle
  \/ QuietFires /\ UNCHANGED outsideSettle
  \/ SweepFires /\ UNCHANGED outsideSettle
  \/ GuardFires /\ UNCHANGED outsideSettle
  \/ Tick /\ UNCHANGED outsideSettle

SpecSettle == InitSettle /\ [][NextSettle]_vars

\* ===================================================== getCDPClient
\* A call is a chain of getCDPClient activations, the innermost last.  The
\* innermost awaits newCDPSession(its target) while `ret` is NoSession;
\* every other one sits in its catch block awaiting getCDPClient(this.page),
\* and `ret` is the session that inner call has resolved with, if it has,
\* `err` the error it has rejected with, if it has.  `threw` records the
\* error the engine rejected the call's request with.
Top(c) == calls[c].stack[Len(calls[c].stack)]
Pop(st) == SubSeq(st, 1, Len(st) - 1)

AwaitsEngine(c) ==
  /\ calls[c].state = "pending"
  /\ calls[c].ret = NoSession
  /\ calls[c].err = NoError

\* the activation for target t of call c returns session s
Return(c, s) ==
  LET rest == Pop(calls[c].stack) IN
  IF rest = <<>>
  THEN /\ calls' = [calls EXCEPT ![c] = [@ EXCEPT !.state = "returned",
                                                  !.stack = <<>>,
                                                  !.ret = NoSession,
                                                  !.result = s]]
       /\ returned' = [returned EXCEPT ![calls[c].target] = @ \cup {s}]
  ELSE /\ calls' = [calls EXCEPT ![c] = [@ EXCEPT !.stack = rest, !.ret = s]]
       /\ UNCHANGED returned

\* getCDPClient(t) is called: the cached session, or a newCDPSession request
Call(c, t) ==
  /\ calls[c].state # "pending"
  /\ IF cdpClients[t] # NoSession
     THEN /\ calls' = [calls EXCEPT ![c] = [IdleCall EXCEPT
                                             !.state = "returned",
                                             !.target = t,
                                             !.result = cdpClients[t]]]
          /\ returned' = [returned EXCEPT ![t] = @ \cup {cdpClients[t]}]
          /\ UNCHANGED rpcs
     ELSE /\ rpcs[t] < MaxRpcs
          /\ calls' = [calls EXCEPT ![c] = [IdleCall EXCEPT
                                             !.state = "pending",
                                             !.target = t,
                                             !.stack = <<t>>]]
          /\ rpcs' = [rpcs EXCEPT ![t] = @ + 1]
          /\ UNCHANGED returned
  /\ UNCHANGED <<separate, cdpClients, nextSession, created>>

\* newCDPSession(target) resolves: cache the session and return it
SessionCreated(c) ==
  /\ AwaitsEngine(c)
  /\ Top(c) \in separate
  /\ nextSession <= MaxSessions
  /\ cdpClients' = [cdpClients EXCEPT ![Top(c)] = nextSession]
  /\ nextSession' = nextSession + 1
  /\ created' = [created EXCEPT ![Top(c)] = @ \cup {nextSession}]
  /\ Return(c, nextSession)
  /\ UNCHANGED <<separate, rpcs>>

\* newCDPSession(target) rejects with "... does not have a separate CDP
\* session": the catch block calls getCDPClient(this.page), which returns
\* the cached root session or requests one in its turn
NoSeparateSession(c) ==
  /\ AwaitsEngine(c)
  /\ Top(c) \notin separate
  /\ IF cdpClients[MainPage] # NoSession
     THEN /\ calls' = [calls EXCEPT ![c].ret = cdpClients[MainPage]]
          /\ UNCHANGED rpcs
     ELSE /\ Len(calls[c].stack) < MaxDepth
          /\ rpcs[MainPage] < MaxRpcs
          /\ calls' = [calls EXCEPT ![c].stack = Append(@, MainPage)]
          /\ rpcs' = [rpcs EXCEPT ![MainPage] = @ + 1]
  /\ UNCHANGED <<separate, cdpClients, nextSession, returned, created>>

Throw_wrapped(call, e) ==
  LET rest == Pop(call.stack) IN
  IF rest = <<>>
  THEN [call EXCEPT !.state = "rejected", !.stack = <<>>, !.err = NoError,
                    !.error = "StagehandDefaultError"]
  ELSE [call EXCEPT !.stack = rest, !.err = e]

\* the innermost activation of a call leaves with error e: the call rejects
\* with e, or the await of the activation that called it throws e
Throw(call, e) ==
  LET rest == Pop(call.stack) IN
  IF rest = <<>>
  THEN [call EXCEPT !.state = "rejected", !.stack = <<>>, !.err = NoError,
                    !.error = e]
  ELSE [call EXCEPT !.stack = rest, !.err = e]

\* newCDPSession(target) rejects with an error whose message does not say
\* "does not have a separate CDP session": the catch block rethrows it
CreationFails(c, e) ==
  /\ AwaitsEngine(c)
  /\ calls' = [calls EXCEPT ![c] = Throw([@ EXCEPT !.threw = e], e)]
  /\ UNCHANGED <<separate, cdpClients, nextSession, rpcs, returned, created>>

\* the awaited getCDPClient(this.page) has rejected: the error leaves the
\* catch block, nothing is cached
FallbackFails(c) ==
  /\ calls[c].state = "pending"
  /\ calls[c].err # NoError
  /\ calls' = [calls EXCEPT ![c] = Throw(@, @.err)]
  /\ UNCHANGED <<separate, cdpClients, nextSession, rpcs, returned, created>>

\* the catch block resumes with rootSession: cache the alias and return it
AliasRoot(c) ==
  /\ calls[c].state = "pending"
  /\ calls[c].ret # NoSession
  /\ cdpClients' = [cdpClients EXCEPT ![Top(c)] = calls[c].ret]
  /\ Return(c, calls[c].ret)
  /\ UNCHANGED <<separate, nextSession, rpcs, created>>

InitCDP ==
  /\ IdleDetector
  /\ InitRegistry
  /\ separate \in SUBSET Targets
  /\ InitSelectorEngine
  /\ InitOrdinals
  /\ IdleQuery
  /\ IdleCaptcha

NextCDP ==
  \/ \E c \in Callers, t \in Targets : Call(c, t) /\ UNCHANGED outsideCDP
  \/ \E c \in Callers : SessionCreated(c) /\ UNCHANGED outsideCDP
  \/ \E c \in Callers : NoSeparateSession(c) /\ UNCHANGED outsideCDP
  \/ \E c \in Callers, e \in OtherErrors :
       CreationFails(c, e) /\ UNCHANGED outsideCDP
  \/ \E c \in Callers : FallbackFails(c) /\ UNCHANGED outsideCDP
  \/ \E c \in Callers : AliasRoot(c) /\ UNCHANGED outsideCDP

SpecCDP == InitCDP /\ [][NextCDP]_vars

\* ============================================ init and the selector engine
\* init() of an instance, as far as the selector engine goes: "setup" is the
\* awaits before ensureStagehandSelectorEngine (getCDPClient, Page.enable,
\* getCurrentRootFrameId), "ensure" the call of it, "registering" the await
\* of selectors.register inside it, "ensured" its return, "initialized" and
\* "rejected" the two ways init() ends.
InitCalled(p) ==
  /\ initPc[p] \in {"new", "initialized", "rejected"}
  /\ initRuns[p] < MaxInits
  /\ initPc' = [initPc EXCEPT ![p] = "setup"]
  /\ initRuns' = [initRuns EXCEPT ![p] = @ + 1]
  /\ UNCHANGED <<stagehandSelectorRegistered, registerCalls, registration>>

InitSetupOk(p) ==
  /\ initPc[p] = "setup"
  /\ initPc' = [initPc EXCEPT ![p] = "ensure"]
  /\ UNCHANGED <<stagehandSelectorRegistered, registerCalls, registration,
                 initRuns>>

\* an await of the setup rejects: the catch block rethrows
InitSetupFails(p) ==
  /\ initPc[p] = "setup"
  /\ initPc' = [initPc EXCEPT ![p] = "rejected"]
  /\ UNCHANGED <<stagehandSelectorRegistered, registerCalls, registration,
                 initRuns>>

ensure_flagWhenRegistered(p) ==
  /\ initPc[p] = "ensure"
  /\ registerCalls' = registerCalls + 1
  /\ registration' = "pending"
  /\ initPc' = [initPc EXCEPT ![p] = "registering"]
  /\ UNCHANGED <<stagehandSelectorRegistered, initRuns>>

\* the synchronous part: return if the flag is set, else set it and invoke
\* selectors.register
ensureStagehandSelectorEngine(p) ==
  /\ initPc[p] = "ensure"
  /\ IF stagehandSelectorRegistered
     THEN /\ initPc' = [initPc EXCEPT ![p] = "ensured"]
          /\ UNCHANGED <<stagehandSelectorRegistered, registerCalls,
                         registration>>
     ELSE /\ stagehandSelectorRegistered' = TRUE
          /\ registerCalls' = registerCalls + 1
          /\ registration' = "pending"
          /\ initPc' = [initPc EXCEPT ![p] = "registering"]
  /\ UNCHANGED initRuns

RegisterResolves(p) ==
  /\ initPc[p] = "registering"
  /\ initPc' = [initPc EXCEPT ![p] = "ensured"]
  /\ registration' = "done"
  /\ UNCHANGED <<stagehandSelectorRegistered, registerCalls, initRuns>>

\* selectors.register rejects: init() rethrows, the flag stays set
RegisterRejects(p) ==
  /\ initPc[p] = "registering"
  /\ initPc' = [initPc EXCEPT ![p] = "rejected"]
  /\ registration' = "failed"
  /\ UNCHANGED <<stagehandSelectorRegistered, registerCalls, initRuns>>

\* this.initialized = true; return this
InitReturns(p) ==
  /\ initPc[p] = "ensured"
  /\ initPc' = [initPc EXCEPT ![p] = "initialized"]
  /\ UNCHANGED <<stagehandSelectorRegistered, registerCalls, registration,
                 initRuns>>

InitInit ==
  /\ IdleDetector
  /\ IdleRegistry
  /\ InitSelectorEngine
  /\ InitOrdinals
  /\ IdleQuery
  /\ IdleCaptcha

NextInit ==
  \/ \E p \in Pages : InitCalled(p) /\ UNCHANGED outsideInit
  \/ \E p \in Pages : InitSetupOk(p) /\ UNCHANGED outsideInit
  \/ \E p \in Pages : InitSetupFails(p) /\ UNCHANGED outsideInit
  \/ \E p \in Pages : ensureStagehandSelectorEngine(p) /\ UNCHANGED outsideInit
  \/ \E p \in Pages : RegisterResolves(p) /\ UNCHANGED outsideInit
  \/ \E p \in Pages : RegisterRejects(p) /\ UNCHANGED outsideInit
  \/ \E p \in Pages : InitReturns(p) /\ UNCHANGED outsideInit

SpecInit == InitInit /\ [][NextInit]_vars

\* ========================================================= frame ordinals
\* `${n}` for an integer n: its decimal digits, most significant first, as a
\* sequence of characters
RECURSIVE Digits(_)
Digits(n) ==
  IF n < 10 THEN <<DigitChars[n + 1]>>
  ELSE Digits(n \div 10) \o <<DigitChars[(n % 10) + 1]>>

NumberToString(n) == IF n < 0 THEN <<"-">> \o Digits(0 - n) ELSE Digits(n)

ordinalForFrameId_noLookup(m, fid) ==
  IF fid = Undefined THEN [map |-> m, ord |-> 0]
  ELSE LET next == Cardinality(DOMAIN m) IN
       [map |-> [x \in DOMAIN m \cup {fid} |-> IF x = fid THEN next ELSE m[x]],
        ord |-> next]

ordinalForFrameId_sizePlusOne(m, fid) ==
  IF fid = Undefined THEN [map |-> m, ord |-> 0]
  ELSE IF fid \in DOMAIN m THEN [map |-> m, ord |-> m[fid]]
  ELSE LET next == Cardinality(DOMAIN m) + 1 IN
       [map |-> m @@ (fid :> next), ord |-> next]

\* ordinalForFrameId on the map m: the map afterwards and the value returned
ordinalForFrameId(m, fid) ==
  IF fid = Undefined THEN [map |-> m, ord |-> 0]
  ELSE IF fid \in DOMAIN m THEN [map |-> m, ord |-> m[fid]]
  ELSE LET next == Cardinality(DOMAIN m) IN
       [map |-> m @@ (fid :> next), ord |-> next]

encodeWithFrameId_noSeparator(m, fid, backendId) ==
  LET r == ordinalForFrameId(m, fid) IN
  [map |-> r.map, ord |-> r.ord,
   token |-> NumberToString(r.ord) \o NumberToString(backendId)]

\* encodeWithFrameId on the map m: the map afterwards, the ordinal used and
\* the string returned
encodeWithFrameId(m, fid, backendId) ==
  LET r == ordinalForFrameId(m, fid) IN
  [map |-> r.map, ord |-> r.ord,
   token |-> NumberToString(r.ord) \o <<"-">> \o NumberToString(backendId)]

resetFrameOrdinals_noDefault(m) == <<>>

resetFrameOrdinals(m) == (Undefined :> 0)

\* the history after a lookup of fid that returned ord
Discover(fid, ord) ==
  IF fid = Undefined \/ \E k \in DOMAIN discovered : discovered[k].fid = fid
  THEN discovered
  ELSE Append(discovered, [fid |-> fid, ord |-> ord])

OrdinalForFrameId ==
  \E fid \in Fids \cup {Undefined} :
    LET r == ordinalForFrameId(fidOrdinals, fid) IN
    /\ fidOrdinals' = r.map
    /\ ordOp' = [NoOp EXCEPT !.op = "ordinal", !.fid = fid, !.ord = r.ord]
    /\ discovered' = Discover(fid, r.ord)
    /\ UNCHANGED retired

EncodeWithFrameId ==
  \E fid \in Fids \cup {Undefined}, backendId \in BackendIds :
    LET r == encodeWithFrameId(fidOrdinals, fid, backendId) IN
    /\ fidOrdinals' = r.map
    /\ ordOp' = [op |-> "encode", fid |-> fid, backendId |-> backendId,
                 ord |-> r.ord, token |-> r.token]
    /\ discovered' = Discover(fid, r.ord)
    /\ UNCHANGED retired

ResetFrameOrdinals ==
  /\ fidOrdinals' = resetFrameOrdinals(fidOrdinals)
  /\ ordOp' = [NoOp EXCEPT !.op = "reset"]
  /\ retired' = discovered
  /\ discovered' = <<>>

InitOrd ==
  /\ IdleDetector
  /\ IdleRegistry
  /\ InitSelectorEngine
  /\ InitOrdinals
  /\ IdleQuery
  /\ IdleCaptcha

NextOrd ==
  \/ OrdinalForFrameId /\ UNCHANGED outsideOrdinals
  \/ EncodeWithFrameId /\ UNCHANGED outsideOrdinals
  \/ ResetFrameOrdinals /\ UNCHANGED outsideOrdinals

SpecOrd == InitOrd /\ [][NextOrd]_vars

\* ==================================================== the selector engine
\* a set of nodes in document order
InOrder(S) ==
  [i \in 1..Cardinality(S) |->
     CHOOSE n \in S : Cardinality({k \in S : k < n}) = i - 1]

Reverse(q) == [i \in 1..Len(q) |-> q[Len(q) + 1 - i]]

\* what the stack holds: an element or text node, or the shadow root of a host
Item(n) == [root |-> FALSE, id |-> n]
RootOf(h) == [root |-> TRUE, id |-> h]
Items(q) == [i \in 1..Len(q) |-> Item(q[i])]

IsElement(node) == ~node.root /\ ~dom.text[node.id]

\* el.children, frag.children, frag.childNodes
children(n) ==
  InOrder({k \in Nodes : dom.parent[k] = n /\ ~dom.shadowed[k] /\ ~dom.text[k]})
fragChildren(h) ==
  InOrder({k \in Nodes : dom.parent[k] = h /\ dom.shadowed[k] /\ ~dom.text[k]})
fragChildNodes(h) ==
  InOrder({k \in Nodes : dom.parent[k] = h /\ dom.shadowed[k]})

\* el.shadowRoot: the root when it is open, else null
shadowRoot(n) == IF dom.mode[n] = "open" THEN <<RootOf(n)>> ELSE <<>>

\* backdoor.getClosedRoot(el): the closed root of el, else undefined
getClosedRoot(n) == IF dom.mode[n] = "closed" THEN <<RootOf(n)>> ELSE <<>>

\* pushChildren(node, stack): the stack afterwards.  A Document is never on
\* the stack, traverseAllTrees having replaced it by its documentElement.
pushChildren(node, stack) ==
  IF node.root
  THEN LET hc == fragChildren(node.id) IN
       IF Len(hc) > 0 THEN stack \o Reverse(Items(hc))
       ELSE stack \o Reverse(Items(fragChildNodes(node.id)))
  ELSE IF IsElement(node) THEN stack \o Reverse(Items(children(node.id)))
  ELSE stack

visit_openOnly(node, stack) ==
  pushChildren(node,
    IF IsElement(node) THEN stack \o shadowRoot(node.id) ELSE stack)

\* one turn of the loop of traverseAllTrees after the pop: the stack afterwards
visit(node, stack) ==
  pushChildren(node,
    IF IsElement(node)
    THEN stack \o shadowRoot(node.id) \o getClosedRoot(node.id)
    ELSE stack)

\* the loop of traverseAllTrees: the elements yielded, in order
RECURSIVE Walk(_, _)
Walk(stack, yielded) ==
  IF stack = <<>> THEN yielded
  ELSE LET node == stack[Len(stack)] IN
       Walk(visit(node, SubSeq(stack, 1, Len(stack) - 1)),
            IF IsElement(node) THEN Append(yielded, node.id) ELSE yielded)

traverseAllTrees(start) == Walk(<<Item(start)>>, <<>>)

Matches(n) == dom.attr[n] = SelectorValue

queryAll(root) == SelectSeq(traverseAllTrees(root), Matches)

query_anyElement(root) ==
  LET els == traverseAllTrees(root) IN
  IF els = <<>> THEN Null ELSE els[1]

\* the loop of query returns at the first element yielded that matches
query(root) ==
  LET els == traverseAllTrees(root) IN
  IF \E i \in DOMAIN els : Matches(els[i])
  THEN els[CHOOSE i \in DOMAIN els :
             Matches(els[i]) /\ \A j \in 1..(i - 1) : ~Matches(els[j])]
  ELSE Null

QueryAll ==
  /\ all' = queryAll(1)
  /\ queried' = queried \cup {"queryAll"}
  /\ UNCHANGED <<dom, first>>

Query ==
  /\ first' = query(1)
  /\ queried' = queried \cup {"query"}
  /\ UNCHANGED <<dom, all>>

InitQuery ==
  /\ IdleDetector
  /\ IdleRegistry
  /\ InitSelectorEngine
  /\ InitOrdinals
  /\ \E p \in Parents, tx \in [Nodes -> BOOLEAN] :
       /\ ~tx[1] /\ \A n \in Nodes \ {1} : ~tx[p[n]]
       /\ \E md \in [Nodes -> ShadowModes] :
            /\ \A n \in Nodes : tx[n] => md[n] = "none"
            /\ \E sh \in [Nodes -> BOOLEAN], at \in [Nodes -> AttrValues] :
                 /\ dom = [parent |-> p, shadowed |-> sh, text |-> tx,
                           mode |-> md, attr |-> at]
                 /\ IsTree(dom)
  /\ NoQuery
  /\ IdleCaptcha

NextQuery ==
  \/ QueryAll /\ UNCHANGED outsideQuery
  \/ Query /\ UNCHANGED outsideQuery

SpecQuery == InitQuery /\ [][NextQuery]_vars

\* ===================================================== waitForCaptchaSolve
\* resolve() and reject() settle a pending promise and leave a settled one
Settle(p, how) == IF p = "pending" THEN how ELSE p

\* the call: throw in a LOCAL environment, else create the promise, set the
\* timer if timeoutMs is truthy and subscribe to console messages
WaitForCaptchaSolve ==
  /\ captcha = "none"
  /\ IF env = "LOCAL"
     THEN /\ captcha' = "rejected"
          /\ captchaError' = "StagehandEnvironmentError"
          /\ UNCHANGED <<timeoutId, consoleOn>>
     ELSE /\ captcha' = "pending"
          /\ timeoutId' = IF timeoutMs \notin {NoTimeout, 0} THEN timeoutMs
                          ELSE Off
          /\ consoleOn' = TRUE
          /\ UNCHANGED captchaError
  /\ UNCHANGED <<env, timeoutMs, started, elapsed, startedAt, finishedAt>>

\* the console listener
ConsoleMessage ==
  /\ consoleOn
  /\ \E text \in ConsoleTexts :
       IF text = "browserbase-solving-finished"
       THEN /\ timeoutId' = Off
            /\ captcha' = Settle(captcha, "resolved")
            /\ finishedAt' = IF finishedAt = Never THEN elapsed ELSE finishedAt
            /\ UNCHANGED <<started, startedAt>>
       ELSE IF text = "browserbase-solving-started"
       THEN /\ started' = TRUE
            /\ startedAt' = IF startedAt = Never THEN elapsed ELSE startedAt
            /\ UNCHANGED <<captcha, timeoutId, finishedAt>>
       ELSE UNCHANGED <<captcha, timeoutId, started, startedAt, finishedAt>>
  /\ UNCHANGED <<env, timeoutMs, captchaError, consoleOn, elapsed>>

timeoutFired_always(p) == Settle(p, "rejected")

\* the timer's callback on the promise p
timeoutFired(p) == IF ~started THEN Settle(p, "rejected") ELSE p

CaptchaTimeoutFires ==
  /\ timeoutId = 0
  /\ timeoutId' = Off
  /\ captcha' = timeoutFired(captcha)
  /\ captchaError' = IF captcha' = "rejected" /\ captcha = "pending"
                     THEN "CaptchaTimeoutError" ELSE captchaError
  /\ UNCHANGED <<env, timeoutMs, started, consoleOn, elapsed, startedAt,
                 finishedAt>>

\* Unit ms pass; a timer that is due runs first
CaptchaTick ==
  /\ captcha # "none"
  /\ timeoutId # 0
  /\ elapsed < MaxElapsed
  /\ elapsed' = elapsed + Unit
  /\ timeoutId' = IF timeoutId = Off THEN Off ELSE timeoutId - Unit
  /\ UNCHANGED <<env, timeoutMs, captcha, captchaError, started, consoleOn,
                 startedAt, finishedAt>>

InitCaptcha ==
  /\ IdleDetector
  /\ IdleRegistry
  /\ InitSelectorEngine
  /\ InitOrdinals
  /\ IdleQuery
  /\ env \in Envs
  /\ timeoutMs \in CaptchaTimeouts
  /\ NoCaptchaWait

NextCaptcha ==
  \/ WaitForCaptchaSolve /\ UNCHANGED outsideCaptcha
  \/ ConsoleMessage /\ UNCHANGED outsideCaptcha
  \/ CaptchaTimeoutFires /\ UNCHANGED outsideCaptcha
  \/ CaptchaTick /\ UNCHANGED outsideCaptcha

SpecCaptcha == InitCaptcha /\ [][NextCaptcha]_vars

\* ================================================================ claims
Pending == pc = "armed" /\ promise = "pending"

\* C1: once the timers are armed, the promise is settled no later than
\* timeout ms afterwards, whatever events arrive: while it is pending the
\* guard is due exactly at `timeout`, and time does not pass that instant
\* with the promise still pending, also when inflight is never empty.
C1_GuardBoundsWait ==
  Pending => /\ now <= timeout
             /\ timers["guard"] = timeout - now

\* the guard resolved a run in which requests kept coming (one at this very
\* instant), none ever completed or was evicted, and inflight is not empty
C1_Witness ==
  /\ last = "guard" /\ promise = "resolved" /\ now = timeout
  /\ timeout = MaxTimeoutUnits * Unit
  /\ inflight = ReqIds /\ nReq = 2 /\ sinceReq <= Unit
  /\ sinceFinish = Never /\ ~swept

\* C2: when the quiet timer's callback resolves the promise, inflight is
\* empty, has been empty for the 500 ms before, and no tracked request
\* initiation was handled in those 500 ms.
C2_QuietMeansIdle ==
  last = "quiet" =>
    /\ inflight = {}
    /\ emptyFor = QuietMs
    /\ sinceReq = Never \/ sinceReq >= QuietMs

C2_Witness ==
  /\ last = "quiet" /\ promise = "resolved"
  /\ nReq = 2 /\ sinceFinish = QuietMs /\ sinceReq > QuietMs

\* C3 as stated: the promise of _waitForSettledDom never rejects.
C3_NeverRejects == promise # "rejected"

\* C3 amended: the promise rejects only when an awaited call of the setup
\* has rejected; once the timers are armed it is never rejected, and while
\* it is pending the guard timer is live, so that it resolves.
C3_RejectsOnlyInSetup ==
  /\ promise = "rejected" <=> pc = "rejected"
  /\ pc = "rejected" => last = "setupFailed" /\ timers["guard"] = Off
  /\ pc = "armed" => promise \in {"pending", "resolved"}
  /\ Pending => timers["guard"] \in 0..timeout

\* the guard resolved a run whose last request was never completed
C3_Witness ==
  /\ pc = "armed" /\ promise = "resolved" /\ last = "guard"
  /\ inflight # {} /\ sinceFinish = Never

\* C4: in a run without sweep evictions, the quiet timer is due exactly
\* 500 ms after finishReq last removed a request, so a resolution by the
\* quiet timer comes exactly 500 ms after that completion.
C4_QuietAfterLastCompletion ==
  (~swept /\ sinceFinish # Never) =>
    /\ last = "quiet" => sinceFinish = QuietMs
    /\ (Pending /\ inflight = {}) => timers["quiet"] = QuietMs - sinceFinish

C4_Witness ==
  /\ last = "quiet" /\ promise = "resolved" /\ ~swept
  /\ sinceFinish = QuietMs /\ nReq = 2 /\ now < timeout

\* C5: handling a requestWillBeSent of type WebSocket or EventSource leaves
\* inflight, meta, docByFrame and the quiet timer as they were.
C5_StreamsIgnored ==
  [][last' = "ignored" =>
       UNCHANGED <<inflight, meta, docByFrame, quietTimer, timers>>]_vars

\* such a request handled half-way through a quiet window, which runs on
C5_Witness ==
  /\ last = "ignored" /\ Pending
  /\ inflight = {} /\ quietTimer /\ timers["quiet"] = Unit

SweepCycles == (StallMs + SweepMs - 1) \div SweepMs

SoleRequest == pc = "armed" /\ nReq = 1 /\ sinceFinish = Never

C7_FrameStopRemoves ==
  [][last' = "frameStop" =>
       \E f \in DOMAIN docByFrame :
         /\ docByFrame[f] \notin inflight'
         /\ docByFrame[f] \notin DOMAIN meta'
         /\ f \notin DOMAIN docByFrame'
         /\ inflight' = {} => quietTimer' /\ timers'["quiet"] = QuietMs]_vars

\* C8: resolveDone runs at most once; once it has run no handler is
\* subscribed and no timer is live, and no later step changes the
\* detector's state.
C8_ResolvesOnce ==
  /\ [](/\ resolveRuns <= 1
        /\ resolveRuns = 1 <=> promise = "resolved"
        /\ promise = "resolved" =>
             /\ listeners = {}
             /\ \A k \in DOMAIN timers : timers[k] = Off)
  /\ [][promise = "resolved" =>
          UNCHANGED <<inflight, meta, docByFrame, quietTimer,
                      stalledRequestSweepTimer, timers, listeners, promise,
                      resolveRuns>>]_vars

\* resolved before the guard was due, and time has passed that instant
C8_Witness ==
  /\ promise = "resolved" /\ resolveRuns = 1
  /\ now > timeout /\ timeout = MaxTimeoutUnits * Unit

\* C9: while the promise is pending the quiet timer is armed exactly when
\* inflight is empty, and a tracked request initiation leaves the detector
\* collecting.
C9_QuietIffEmpty ==
  Pending =>
    /\ quietTimer <=> inflight = {}
    /\ quietTimer <=> timers["quiet"] # Off
    /\ last = "request" => inflight # {} /\ ~quietTimer

\* the first tracked request, which found the detector quieting
C9_Witness ==
  /\ Pending /\ last = "request" /\ nReq = 1 /\ emptyFor = Never
  /\ now = Unit

\* C10: for a subframe the engine creates no dedicated session for, every
\* getCDPClient(subframe) that returns, returns one and the same session,
\* which is the one cached under the subframe and the one getCDPClient(main
\* page) returns; and once a session is cached under the subframe no
\* newCDPSession request is made for it again.
C10_AliasOfRootSession ==
  /\ [](\A f \in Targets \ (separate \cup {MainPage}) :
          /\ Cardinality(returned[f]) <= 1
          /\ returned[f] # {} =>
               /\ returned[f] = {cdpClients[f]}
               /\ cdpClients[f] = cdpClients[MainPage])
  /\ [][\A f \in Targets \ (separate \cup {MainPage}) :
          cdpClients[f] # NoSession => rpcs'[f] = rpcs[f]]_vars

\* C11: for every target at most one session is ever created, and all the
\* getCDPClient calls for it that return, return one and the same session,
\* calls that overlap in time included.
C11_OneSessionPerTarget ==
  \A t \in Targets :
    /\ Cardinality(created[t]) <= 1
    /\ Cardinality(returned[t]) <= 1

\* C12: a getCDPClient call rejects only with the very error the engine
\* rejected its newCDPSession request with (for the target, or for the main
\* page in the fallback), which is not the no-separate-session error; the
\* steps that carry the error out leave the cache as it was; and the next
\* call for that target, the cache still empty for it, requests a session.
C12_FailureLeavesCache ==
  /\ [](\A c \in Callers :
          calls[c].state = "rejected" =>
            /\ calls[c].error = calls[c].threw
            /\ calls[c].error \in OtherErrors)
  /\ [][\A c \in Callers :
          (/\ calls'[c] # calls[c]
           /\ calls'[c].state = "rejected" \/ calls'[c].err # NoError)
          => cdpClients' = cdpClients]_vars
  /\ [][\A c \in Callers :
          (/\ calls[c].state = "rejected"
           /\ calls'[c] # calls[c]
           /\ calls'[c].target = calls[c].target
           /\ cdpClients[calls[c].target] = NoSession)
          => /\ calls'[c].state = "pending"
             /\ rpcs'[calls[c].target] = rpcs[calls[c].target] + 1]_vars

\* a call for a subframe was rejected because the fallback request for the
\* main page failed, nothing is cached, and a later call for the subframe
\* has made a second request for it
C12_Witness ==
  /\ \E c \in Callers :
       /\ calls[c].state = "rejected" /\ calls[c].target # MainPage
       /\ calls[c].target \notin separate
       /\ calls[c].error \in OtherErrors
       /\ rpcs[calls[c].target] = 2
  /\ rpcs[MainPage] = 1
  /\ \A t \in Targets : cdpClients[t] = NoSession
  /\ \E c \in Callers : calls[c].state = "pending"

\* C13: selectors.register is invoked at most once, whatever the number of
\* instances and the interleaving of their init() calls; an init() that
\* reaches ensureStagehandSelectorEngine with the flag set goes on without
\* invoking it and without an error.
C13_RegisteredOnce ==
  /\ [](/\ registerCalls <= 1
        /\ registerCalls = 1 <=> stagehandSelectorRegistered
        /\ Cardinality({p \in Pages : initPc[p] = "registering"}) <= 1)
  /\ [][\A p \in Pages :
          (/\ stagehandSelectorRegistered
           /\ initPc[p] = "ensure" /\ initPc'[p] # "ensure")
          => /\ initPc'[p] = "ensured"
             /\ registerCalls' = registerCalls]_vars

\* one instance awaits selectors.register, a second one has gone through
\* init() meanwhile, a third is about to reach the guard
C13_Witness ==
  \E p, q, r \in Pages :
    /\ initPc[p] = "registering" /\ initPc[q] = "initialized"
    /\ initPc[r] = "ensure" /\ initRuns[q] = 1
    /\ registerCalls = 1

Looked == ordOp.op \in {"ordinal", "encode"}

\* C14: a lookup of undefined returns 0, and a lookup of any other frame id
\* returns the ordinal that frame id got when it was first looked up since
\* the latest reset, whatever was looked up in between.
C14_OrdinalStable ==
  Looked =>
    IF ordOp.fid = Undefined
    THEN ordOp.ord = 0
    ELSE \E k \in DOMAIN discovered :
           discovered[k] = [fid |-> ordOp.fid, ord |-> ordOp.ord]

\* the frame id discovered first is looked up again after two others
C14_Witness ==
  /\ ordOp.op = "ordinal" /\ Len(discovered) = 3
  /\ ordOp.fid = discovered[1].fid /\ ordOp.ord = 1

\* C15: the k-th distinct frame id looked up since the latest reset got
\* ordinal k, so the ordinals in the map are exactly 0..n, each held by one
\* key, the keys being undefined and the frame ids discovered.
C15_OrdinalsDense ==
  /\ \A k \in DOMAIN discovered : discovered[k].ord = k
  /\ DOMAIN fidOrdinals =
       {Undefined} \cup {discovered[k].fid : k \in DOMAIN discovered}
  /\ {fidOrdinals[f] : f \in DOMAIN fidOrdinals} = 0..Len(discovered)
  /\ \A f, g \in DOMAIN fidOrdinals :
       fidOrdinals[f] = fidOrdinals[g] => f = g

\* the third frame id of an epoch, discovered by encodeWithFrameId
C15_Witness ==
  /\ ordOp.op = "encode" /\ Len(discovered) = 3
  /\ ordOp.fid = discovered[3].fid /\ ordOp.ord = 3

\* C16: right after resetFrameOrdinals the map is {undefined -> 0}, and the
\* first frame id looked up after a reset gets ordinal 1, whatever ordinal
\* it held before.
C16_ResetRestarts ==
  /\ ordOp.op = "reset" =>
       /\ DOMAIN fidOrdinals = {Undefined}
       /\ fidOrdinals[Undefined] = 0
  /\ (Looked /\ Len(discovered) = 1 /\ ordOp.fid = discovered[1].fid) =>
       ordOp.ord = 1

\* the frame id that held ordinal 3 is the first looked up after the reset
C16_Witness ==
  /\ ordOp.op = "ordinal" /\ ordOp.ord = 1
  /\ Len(retired) = 3 /\ retired[3].fid = ordOp.fid
  /\ Len(discovered) = 1

\* the index of the first "-" of a string, 0 when it has none
FirstDash(t) ==
  IF \E i \in DOMAIN t : t[i] = "-"
  THEN CHOOSE i \in DOMAIN t : t[i] = "-" /\ \A j \in 1..(i - 1) : t[j] # "-"
  ELSE 0

DigitValue(ch) == (CHOOSE i \in DOMAIN DigitChars : DigitChars[i] = ch) - 1

\* a string of digits read as a base-10 integer; -1 when it is not one
RECURSIVE ParseInt(_)
ParseInt(t) ==
  IF t = <<>> \/ \E i \in DOMAIN t : \A k \in DOMAIN DigitChars : DigitChars[k] # t[i]
  THEN -1
  ELSE IF Len(t) = 1 THEN DigitValue(t[1])
  ELSE 10 * ParseInt(SubSeq(t, 1, Len(t) - 1)) + DigitValue(t[Len(t)])

\* a token split at its first "-", both parts read as integers
ParseToken(t) ==
  LET i == FirstDash(t) IN
  IF i = 0 THEN <<-1, -1>>
  ELSE <<ParseInt(SubSeq(t, 1, i - 1)), ParseInt(SubSeq(t, i + 1, Len(t)))>>

\* C17: encodeWithFrameId(fid, backendId) returns the ordinal of fid (0 for
\* undefined, else the one fid got first in this epoch), "-" and backendId
\* in decimal digits; the token parses back to (ordinal, backendId); and in
\* any state two encodings of different (frame id, backend id) pairs, one
\* after the other, give different tokens.
C17_TokenRoundTrip ==
  /\ ordOp.op = "encode" =>
       /\ ParseToken(ordOp.token) = <<ordOp.ord, ordOp.backendId>>
       /\ FirstDash(ordOp.token) = Len(NumberToString(ordOp.ord)) + 1
       /\ IF ordOp.fid = Undefined THEN ordOp.ord = 0
          ELSE \E k \in DOMAIN discovered :
                 discovered[k] = [fid |-> ordOp.fid, ord |-> ordOp.ord]
  /\ \A f1, f2 \in Fids \cup {Undefined}, b1, b2 \in BackendIds :
       <<f1, b1>> # <<f2, b2>> =>
         LET e1 == encodeWithFrameId(fidOrdinals, f1, b1)
             e2 == encodeWithFrameId(e1.map, f2, b2)
         IN e1.token # e2.token

\* a three-digit backend id encoded for the third frame id of the epoch
C17_Witness ==
  /\ ordOp.op = "encode" /\ ordOp.ord = 3 /\ ordOp.backendId = 120
  /\ ordOp.token = <<"3", "-", "1", "2", "0">>

\* the nesting depth of a node: the number of shadow roots above it
RECURSIVE Depth(_)
Depth(n) ==
  IF n = 1 THEN 0
  ELSE Depth(dom.parent[n]) + (IF dom.shadowed[n] THEN 1 ELSE 0)

\* C18: queryAll returns exactly the elements of the tree whose attribute
\* equals the selector value, those inside open and closed shadow roots at
\* any depth included, and none of them twice.
C18_EveryMatchOnce ==
  "queryAll" \in queried =>
    /\ {all[i] : i \in DOMAIN all} =
         {n \in Nodes : ~dom.text[n] /\ dom.attr[n] = SelectorValue}
    /\ \A i, j \in DOMAIN all : all[i] = all[j] => i = j

\* a match inside a closed root nested in an open root, and one in the
\* light tree of the outer host
C18_Witness ==
  /\ "queryAll" \in queried /\ Len(all) >= 2
  /\ \E n \in Nodes :
       /\ Depth(n) = MaxNodes - 1 /\ \E i \in DOMAIN all : all[i] = n
       /\ dom.mode[dom.parent[n]] = "closed"
       /\ dom.mode[dom.parent[dom.parent[n]]] = "open"

\* C19: query returns the first element of what queryAll returns, and null
\* exactly when queryAll returns no element.
C19_QueryIsFirstOfAll ==
  queried = {"query", "queryAll"} =>
    /\ first = Null <=> all = <<>>
    /\ all # <<>> => first = all[1]

\* the root does not match and the first match is inside a shadow root
C19_Witness ==
  /\ queried = {"query", "queryAll"}
  /\ first # Null /\ first # 1 /\ dom.shadowed[first] /\ Len(all) >= 2

\* no started and no finished message was handled up to the instant t
SilentUntil(t) ==
  /\ startedAt = Never \/ startedAt > t
  /\ finishedAt = Never \/ finishedAt > t

\* what C20 says of a call with timeout t
CaptchaContract(t) ==
  /\ (elapsed > t /\ SilentUntil(t)) =>
       captcha = "rejected" /\ captchaError = "CaptchaTimeoutError"
  /\ (startedAt # Never /\ startedAt < t
        /\ (finishedAt = Never \/ finishedAt >= startedAt)) =>
       captcha # "rejected"
  /\ (captcha = "rejected" /\ captchaError = "CaptchaTimeoutError") =>
       /\ elapsed >= t
       /\ startedAt = Never \/ startedAt >= t
       /\ finishedAt = Never \/ finishedAt >= t
  /\ finishedAt # Never =>
       \/ captcha = "resolved"
       \/ captcha = "rejected" /\ finishedAt >= t /\ elapsed >= t
  /\ captcha = "resolved" => finishedAt # Never

C22_DocumentsInFlight ==
  \A f \in DOMAIN docByFrame : docByFrame[f] \in inflight

\* C23: a sweep tick that leaves inflight empty leaves the quiet timer
\* armed: set to 500 ms by this tick if it was not armed, and otherwise
\* running on as it was, neither cancelled nor restarted.
C23_SweepArmsQuietOnce ==
  [][(last' = "sweep" /\ promise' = "pending") =>
       /\ quietTimer =>
            quietTimer' /\ timers'["quiet"] = timers["quiet"]
       /\ (~quietTimer /\ inflight' = {}) =>
            quietTimer' /\ timers'["quiet"] = QuietMs
       /\ inflight' # {} => ~quietTimer' /\ timers'["quiet"] = Off]_vars

\* a sweep tick has evicted the last request and armed the quiet timer
C23_Witness ==
  /\ last = "sweep" /\ Pending /\ swept
  /\ inflight = {} /\ emptyFor = 0
  /\ quietTimer /\ timers["quiet"] = QuietMs

\* C24: handling a loadingFinished, loadingFailed, requestServedFromCache or
\* data: responseReceived event for a request id that is not in inflight
\* leaves inflight, meta, the frame -> document map, the quiet timer and its
\* time left as they were.
C24_UnknownCompletionIgnored ==
  [][last' = "noFinish" =>
       UNCHANGED <<inflight, meta, docByFrame, quietTimer, timers, promise>>]_vars

\* a completion for a request the sweep has evicted, half-way through the
\* quiet window that followed
C24_Witness ==
  /\ last = "noFinish" /\ Pending /\ swept
  /\ inflight = {} /\ quietTimer /\ timers["quiet"] = Unit
  /\ emptyFor = Unit

MinDelay == IF timeout < QuietMs THEN timeout ELSE QuietMs

\* C25: from the arming on, as long as no tracked request initiation has
\* been handled, the quiet timer is armed and due 500 ms after the arming;
\* a run without such an initiation is resolved exactly min(500, timeout)
\* ms after the arming, and no run is resolved earlier than that.
C25_FirstQuietWindow ==
  /\ (Pending /\ nReq = 0) =>
       /\ inflight = {} /\ quietTimer
       /\ timers["quiet"] = QuietMs - now
  /\ last \in {"quiet", "guard"} =>
       /\ now >= MinDelay
       /\ nReq = 0 => now = MinDelay
  /\ promise = "resolved" => now >= MinDelay

\* no request at all: the quiet timer resolved the promise at 500 ms
C25_Witness ==
  /\ last = "quiet" /\ promise = "resolved" /\ nReq = 0
  /\ now = QuietMs /\ timeout > QuietMs

\* C28: the keys of meta are exactly the members of inflight.
C28_MetaTracksInflight == DOMAIN meta = inflight

\* a sweep tick has evicted one of two requests and kept the other
C28_Witness ==
  /\ last = "sweep" /\ Pending /\ swept
  /\ Cardinality(inflight) = 1 /\ DOMAIN meta = inflight
  /\ \E id \in inflight : now - meta[id].start = Unit

\* C29: a request in inflight is evicted by the sweep no later than 2000 ms
\* plus one sweep interval after its first initiation: the start recorded
\* for it is never more than that long ago, and a further initiation event
\* with the id of a request in inflight leaves that start as it is.
C29_RepeatDoesNotPostpone ==
  /\ [](Pending =>
          \A id \in inflight : now - meta[id].start <= StallMs + SweepMs)
  /\ [][last' = "request" =>
          \A id \in inflight : meta'[id].start = meta[id].start]_vars

\* C26: an instance whose ensureStagehandSelectorEngine call has returned
\* without an error finds the selector engine registered: the one
\* selectors.register invocation has resolved.
C26_ReturnedMeansRegistered ==
  \A p \in Pages :
    initPc[p] \in {"ensured", "initialized"} => registration = "done"

\* C27: a getCDPClient call makes at most two newCDPSession requests, one
\* for its target and one for the main page in the fallback, whatever the
\* engine answers: no call is ever more than two activations deep.
C27_AtMostTwoRequests ==
  \A c \in Callers : Len(calls[c].stack) <= 2

====
